---- MODULE Spec2Model ----
(***************************************************************************)
(* on2iob: conversion of OntoNotes `.name` XML documents to IOB data.      *)
(*                                                                         *)
(* Strings are sequences of one-character strings.  A document is read in  *)
(* document order: the variable doc holds the part of the element tree     *)
(* that the depth-first traversal of xml2iob has visited so far.           *)
(***************************************************************************)
EXTENDS Integers, Sequences, FiniteSets

\* ------------------------------------------------------------------ bounds
\* The size of a document: the characters of its text and tail segments, and
\* two for the markup of every element.
MaxSize == 7

\* ------------------------------------------------------------- characters
SP == " "
NL == "\n"
TAB == "\t"
Char == {"a", SP, NL, TAB}
\* str.strip() without argument and str.isspace(): the whitespace of the model
Whitespace == {SP, NL, TAB}

\* The values of the TYPE attribute of the documents: non-empty labels, upper
\* or lower case.  The tag names: ENAMEX marks an entity span, DOC stands for
\* every other element.
TypeValues == {<<"P">>, <<"q">>}
TagNames == {"DOC", "ENAMEX"}
\* Element.attrib: a set of <<name, value>> pairs with at most one TYPE
Attribs == {{}} \cup {{<<"TYPE", t>>} : t \in TypeValues}
HasKey(attrib, name) == \E p \in attrib : p[1] = name
Get(attrib, name) == (CHOOSE p \in attrib : p[1] = name)[2]

Strings(n) == UNION {[1..k -> Char] : k \in 0..n}

\* ------------------------------------------------------- on2iob.py:15
I == "I"
O == "O"
B == "B"

\* ----------------------------------------------------- string primitives
\* str.lower(), character by character
LowerChar(c) == IF c = "P" THEN "p" ELSE IF c = "Q" THEN "q" ELSE c
Lower(s) == [k \in 1..Len(s) |-> LowerChar(s[k])]

\* The least index of sep in s, or 0
Find(s, sep) ==
    IF \E k \in 1..Len(s) : s[k] = sep
    THEN CHOOSE k \in 1..Len(s) : s[k] = sep /\ \A j \in 1..(k-1) : s[j] # sep
    ELSE 0

\* str.split(sep): the pieces between the separators, empty pieces kept
RECURSIVE Split(_, _)
Split(s, sep) ==
    LET k == Find(s, sep)
    IN  IF k = 0 THEN <<s>>
        ELSE <<SubSeq(s, 1, k-1)>> \o Split(SubSeq(s, k+1, Len(s)), sep)

\* str.strip(chars): leading and trailing characters of the set removed
RECURSIVE LStrip(_, _)
LStrip(s, cs) ==
    IF s # <<>> /\ Head(s) \in cs THEN LStrip(Tail(s), cs) ELSE s
RECURSIVE RStrip(_, _)
RStrip(s, cs) ==
    IF s # <<>> /\ s[Len(s)] \in cs THEN RStrip(SubSeq(s, 1, Len(s)-1), cs) ELSE s
Strip(s, cs) == RStrip(LStrip(s, cs), cs)

\* ------------------------------------------------------------------ state
VARIABLES
    doc,        \* the document, in document order, as far as it has been visited:
                \* [ev |-> "open", tag, attrib, text] on entering an element
                \* (text: Element.text) and [ev |-> "close", tag, attrib, text]
                \* on leaving it (text: Element.tail); <<>> is None
    stack,      \* the elements of the active calls of xml2iob, the root first
    pc,         \* where the program is
    lines,      \* tag_text: text.split('\n')
    i,          \* tag_text: index of the current line, from 1
    words,      \* tag_text: the words of the current line still to visit
    tag_pos,    \* tag_text: B or I
    tag_type,   \* tag_text: the entity type, <<>> outside entities
    data,       \* local_iob_data: the sentences of the document
    org,        \* for every pair appended, the index in doc of its segment
    iob_data,   \* parse_iob_files: the sentences of the accepted document
    err,        \* the exception raised, if any
    shuffled,   \* build_random_partitions: its copy of the data, shuffled
    parts,      \* what build_random_partitions returned
    files       \* the text of the output files written

vars == <<doc, stack, pc, lines, i, words, tag_pos, tag_type, data, org, iob_data, err,
          shuffled, parts, files>>
trav == <<doc, stack, lines, i, words, tag_pos, tag_type, data, org>>

NoErr == [type |-> "none"]
NoParts == [train_data |-> <<>>, valid_data |-> <<>>, test_data |-> <<>>]
FileNames == {"iobfile", "trainfile", "validfile", "testfile"}
NoFiles == [f \in FileNames |-> <<>>]
\* the one `.name` file of the run
filename == "doc.name"

\* Characters of text and tail read so far, and elements entered so far
RECURSIVE CharsOf(_)
CharsOf(d) == IF d = <<>> THEN 0 ELSE Len(Head(d).text) + CharsOf(Tail(d))
NodesOf(d) == Cardinality({k \in 1..Len(d) : d[k].ev = "open"})
SizeOf(d) == 2 * NodesOf(d) + CharsOf(d)

InTagText == pc \in {"text", "tail"}

\* (variant: the position is ignored, every word begins a span)
TagOfBegin(pos, type) == IF type # <<>> THEN <<B, "-">> \o type ELSE <<O>>

\* on2iob.py:57: the tag of a word
TagOf(pos, type) == IF type # <<>> THEN <<pos, "-">> \o type ELSE <<O>>

\* on2iob.py:49,52: the words of a line
WordsOf(line) == Split(Strip(line, {SP}), SP)

\* (variant: the pair goes to the first sentence, data[0].append)
AppendFirst(d, pair) == [d EXCEPT ![1] = Append(@, pair)]

\* list.append on the last sentence of data (data[-1].append)
AppendLast(d, pair) == [d EXCEPT ![Len(d)] = Append(@, pair)]

\* on2iob.py:103: parse_iob_files starts the traversal with [[]]
Init ==
    /\ doc = <<>>
    /\ stack = <<>>
    /\ pc = "start"
    /\ lines = <<>>
    /\ i = 0
    /\ words = <<>>
    /\ tag_pos = B
    /\ tag_type = <<>>
    /\ data = << <<>> >>
    /\ org = <<>>
    /\ iob_data = <<>>
    /\ err = NoErr
    /\ shuffled = <<>>
    /\ parts = NoParts
    /\ files = NoFiles

\* tag_text is entered with text and type: on2iob.py:40-46,49
EnterTagText(text, type, where) ==
    /\ lines' = Split(text, NL)
    /\ i' = 1
    /\ words' = WordsOf(Split(text, NL)[1])
    /\ tag_pos' = B
    /\ tag_type' = type
    /\ pc' = where

LeaveTagText ==
    /\ lines' = <<>>
    /\ i' = 0
    /\ words' = <<>>
    /\ tag_pos' = B
    /\ tag_type' = <<>>

\* on2iob.py:72-76 (and 104, 80: the call): xml2iob is entered for the root or
\* for the next child of the element on top of the stack
Xml2iob(tag, attrib, text) ==
    /\ pc \in {"start", "children"}
    /\ SizeOf(doc) + 2 + Len(text) <= MaxSize
    /\ doc' = Append(doc, [ev |-> "open", tag |-> tag, attrib |-> attrib, text |-> text])
    /\ stack' = Append(stack, [tag |-> tag, attrib |-> attrib])
    /\ UNCHANGED <<data, org, iob_data, shuffled, parts, files>>
    /\ IF text # <<>>
       THEN IF tag = "ENAMEX" /\ ~HasKey(attrib, "TYPE")
            THEN /\ pc' = "raised"
                 /\ err' = [type |-> "KeyError", key |-> "TYPE"]
                 /\ UNCHANGED <<lines, i, words, tag_pos, tag_type>>
            ELSE /\ EnterTagText(text,
                        IF tag = "ENAMEX" THEN Lower(Get(attrib, "TYPE")) ELSE <<>>,
                        "text")
                 /\ err' = err
       ELSE /\ pc' = "children"
            /\ UNCHANGED <<lines, i, words, tag_pos, tag_type, err>>

\* on2iob.py:52-63: one iteration of the loop over the words of a line
Word ==
    /\ InTagText
    /\ words # <<>>
    /\ words' = Tail(words)
    /\ IF Head(words) = <<>>
       THEN UNCHANGED <<data, org, tag_pos>>
       ELSE /\ data' = AppendLast(data, [word |-> Head(words), tag |-> TagOf(tag_pos, tag_type)])
            /\ org' = Append(org, Len(doc))
            /\ tag_pos' = I
    /\ UNCHANGED <<doc, stack, pc, lines, i, tag_type, iob_data, err, shuffled, parts, files>>

\* (variant: the line ends without a new sentence)
SplitSentenceNoAppend ==
    /\ InTagText
    /\ words = <<>>
    /\ i < Len(lines)
    /\ i' = i + 1
    /\ words' = WordsOf(lines[i + 1])
    /\ tag_pos' = B
    /\ UNCHANGED <<doc, stack, pc, lines, tag_type, data, org, iob_data, err, shuffled, parts, files>>

\* (variant: the position is not reset to B for the next line)
SplitSentenceKeepPos ==
    /\ InTagText
    /\ words = <<>>
    /\ i < Len(lines)
    /\ data' = Append(data, <<>>)
    /\ i' = i + 1
    /\ words' = WordsOf(lines[i + 1])
    /\ UNCHANGED <<doc, stack, pc, lines, tag_pos, tag_type, org, iob_data, err, shuffled, parts, files>>

\* on2iob.py:66-67, then 44-49 for the next line
SplitSentence ==
    /\ InTagText
    /\ words = <<>>
    /\ i < Len(lines)
    /\ data' = Append(data, <<>>)
    /\ i' = i + 1
    /\ words' = WordsOf(lines[i + 1])
    /\ tag_pos' = B
    /\ UNCHANGED <<doc, stack, pc, lines, tag_type, org, iob_data, err, shuffled, parts, files>>

\* xml2iob returns: the caller goes on with its loop over the children, or
\* parse_iob_files goes on after line 104
Return ==
    /\ stack' = SubSeq(stack, 1, Len(stack) - 1)
    /\ pc' = IF Len(stack) = 1 THEN "returned" ELSE "children"

\* on2iob.py:66 false on the last line: tag_text returns
EndTagText ==
    /\ InTagText
    /\ words = <<>>
    /\ i = Len(lines)
    /\ LeaveTagText
    /\ IF pc = "text" THEN pc' = "children" /\ stack' = stack ELSE Return
    /\ UNCHANGED <<doc, data, org, iob_data, err, shuffled, parts, files>>

\* (variant: the tail takes the type of the enclosing entity span)
TailTypeEnclosing(st) ==
    IF Len(st) > 1 /\ st[Len(st) - 1].tag = "ENAMEX" /\ HasKey(st[Len(st) - 1].attrib, "TYPE")
    THEN Lower(Get(st[Len(st) - 1].attrib, "TYPE"))
    ELSE <<>>

\* on2iob.py:85: the type tag_text is given for the tail of the element on top of
\* the stack st
TailType(st) == <<>>

\* on2iob.py:79 exhausted, 84-85: the tail of the element on top of the stack.
\* The root of ETree.fromstring has no tail.
TailText(text) ==
    /\ pc = "children"
    /\ Len(stack) = 1 => text = <<>>
    /\ SizeOf(doc) + Len(text) <= MaxSize
    /\ doc' = Append(doc, [ev |-> "close", tag |-> stack[Len(stack)].tag,
                           attrib |-> stack[Len(stack)].attrib, text |-> text])
    /\ IF text # <<>>
       THEN EnterTagText(text, TailType(stack), "tail") /\ stack' = stack
       ELSE Return /\ UNCHANGED <<lines, i, words, tag_pos, tag_type>>
    /\ UNCHANGED <<data, org, iob_data, err, shuffled, parts, files>>

\* ------------------------------------------------------ parse_iob_files
\* The raw text of the file that ETree.fromstring parsed into the document: a
\* start tag, the text, the children, an end tag, the tail.  Markup is written
\* on one line, as in the `.name` files: "<" and ">" stand for a start and an
\* end tag.
RECURSIVE Raw(_)
Raw(d) ==
    IF d = <<>> THEN <<>>
    ELSE <<(IF Head(d).ev = "open" THEN "<" ELSE ">")>> \o Head(d).text \o Raw(Tail(d))

NonEmpty(x) == x # <<>>
NonBlank(line) == Strip(line, Whitespace) # <<>>

\* (variant: the two lines of document markup are not subtracted)
NRawSentNoOffset(raw_data) == Len(SelectSeq(Split(raw_data, NL), NonBlank))

\* on2iob.py:113
NRawSent(raw_data) == Len(SelectSeq(Split(raw_data, NL), NonBlank)) - 2

\* on2iob.py:106-119, with the end of the loop and the return at 124
Validate ==
    /\ pc = "returned"
    /\ LET local_iob_data == SelectSeq(data, NonEmpty)
           nsent == Len(local_iob_data)
           nraw_sent == NRawSent(Raw(doc))
       IN  IF nsent # nraw_sent
           THEN /\ pc' = "raised"
                /\ err' = [type |-> "RuntimeError", nsent |-> nsent,
                           nraw_sent |-> nraw_sent, filename |-> filename]
                /\ iob_data' = iob_data
           ELSE /\ pc' = "parsed"
                /\ iob_data' = iob_data \o local_iob_data
                /\ err' = err
    /\ UNCHANGED <<trav, shuffled, parts, files>>

\* ------------------------------------------------------------ write_iob
\* on2iob.py:133: ' '.join(token_tag) + '\n'
PairLine(pair) == pair.word \o <<SP>> \o pair.tag \o <<NL>>

RECURSIVE SentLines(_)
SentLines(sent) ==
    IF sent = <<>> THEN <<>> ELSE PairLine(Head(sent)) \o SentLines(Tail(sent))

\* (variant: a blank line after every sentence, the last one too)
RECURSIVE WriteIobTrailingBlank(_)
WriteIobTrailingBlank(d) ==
    IF d = <<>> THEN <<>>
    ELSE SentLines(Head(d)) \o <<NL>> \o WriteIobTrailingBlank(Tail(d))

\* on2iob.py:129-135: the text of the file written for d
RECURSIVE WriteIobText(_)
WriteIobText(d) ==
    IF d = <<>> THEN <<>>
    ELSE SentLines(Head(d)) \o (IF Len(d) > 1 THEN <<NL>> ELSE <<>>) \o WriteIobText(Tail(d))

\* on2iob.py:208 (204-205 print only)
WriteIob ==
    /\ pc = "parsed"
    /\ files' = [files EXCEPT !["iobfile"] = WriteIobText(iob_data)]
    /\ pc' = "written"
    /\ UNCHANGED <<trav, iob_data, err, shuffled, parts>>

\* ----------------------------------------------- build_random_partitions
\* on2iob.py:137: the default fractions, in hundredths
valid_frac == 7
test_frac == 7

\* int(frac * nsent) for a fraction given in hundredths
IntFrac(frac, nsent) == (frac * nsent) \div 100

\* The orders rng.shuffle can leave a list in
Shuffles(s) ==
    {[k \in 1..Len(s) |-> s[p[k]]] :
        p \in {q \in [1..Len(s) -> 1..Len(s)] : \A a, b \in 1..Len(s) : q[a] = q[b] => a = b}}

\* on2iob.py:152-160: the three slices of the shuffled list, as returned
Slices(sh) ==
    LET nsent == Len(sh)
        valid_end == IntFrac(valid_frac, nsent)
        test_end == valid_end + IntFrac(test_frac, nsent)
    IN  [train_data |-> SubSeq(sh, 1, valid_end),
         valid_data |-> SubSeq(sh, valid_end + 1, test_end),
         test_data |-> SubSeq(sh, test_end + 1, nsent)]

\* on2iob.py:211, 144-160: the copy is shuffled, iob_data is left alone
BuildRandomPartitions ==
    /\ pc = "written"
    /\ \E sh \in Shuffles(iob_data) :
          /\ shuffled' = sh
          /\ parts' = Slices(sh)
    /\ pc' = "partitioned"
    /\ UNCHANGED <<trav, iob_data, err, files>>

\* on2iob.py:212-214
WriteParts ==
    /\ pc = "partitioned"
    /\ files' = [files EXCEPT !["validfile"] = WriteIobText(parts.train_data),
                              !["testfile"] = WriteIobText(parts.valid_data),
                              !["trainfile"] = WriteIobText(parts.test_data)]
    /\ pc' = "done"
    /\ UNCHANGED <<trav, iob_data, err, shuffled, parts>>

\* The elements of the documents: only ENAMEX elements carry attributes
Elements ==
    {[tag |-> "DOC", attrib |-> {}]} \cup [tag : {"ENAMEX"}, attrib : Attribs]

Next ==
    \/ \E e \in Elements, text \in Strings(MaxSize - SizeOf(doc) - 2) :
          Xml2iob(e.tag, e.attrib, text)
    \/ Word
    \/ SplitSentence
    \/ EndTagText
    \/ \E text \in Strings(MaxSize - SizeOf(doc)) : TailText(text)
    \/ Validate
    \/ WriteIob
    \/ BuildRandomPartitions
    \/ WriteParts

Spec == Init /\ [][Next]_vars

\* ================================================================ claims
\* What the claims speak of, read off the state without the program's own
\* operators: the pairs of data in order, and scans of the document's text.

\* the pairs of all sentences of d, in order
RECURSIVE Flat(_)
Flat(d) == IF d = <<>> THEN <<>> ELSE Head(d) \o Flat(Tail(d))

\* the index of the sentence of d that holds the j-th pair of Flat(d)
RECURSIVE SentOf(_, _)
SentOf(d, j) == IF j <= Len(Head(d)) THEN 1 ELSE 1 + SentOf(Tail(d), j - Len(Head(d)))

\* the maximal runs of s without a character of seps (cur: the run being read)
RECURSIVE Runs(_, _, _)
Runs(s, seps, cur) ==
    IF s = <<>> THEN (IF cur = <<>> THEN <<>> ELSE <<cur>>)
    ELSE IF Head(s) \in seps
         THEN (IF cur = <<>> THEN <<>> ELSE <<cur>>) \o Runs(Tail(s), seps, <<>>)
         ELSE Runs(Tail(s), seps, Append(cur, Head(s)))

\* the whitespace-delimited non-empty substrings of the segments of d, in
\* document order
RECURSIVE DocTokens(_)
DocTokens(d) ==
    IF d = <<>> THEN <<>> ELSE Runs(Head(d).text, Whitespace, <<>>) \o DocTokens(Tail(d))

Finished == pc = "returned"

\* the tags of the pairs that came from segment k of doc
SegTags(k) ==
    LET flat == Flat(data)
        js == {j \in 1..Len(org) : org[j] = k}
    IN  IF js = {} THEN <<>>
        ELSE LET lo == CHOOSE j \in js : \A m \in js : j <= m
                 hi == CHOOSE j \in js : \A m \in js : j >= m
             IN  [n \in 1..(hi - lo + 1) |-> flat[lo + n - 1].tag]

\* the segments that are the direct text of an entity span
EntitySegs ==
    {k \in 1..Len(doc) : doc[k].ev = "open" /\ doc[k].tag = "ENAMEX" /\ doc[k].text # <<>>}

SegType(k) == Lower(Get(doc[k].attrib, "TYPE"))

\* C1: after xml2iob(root, [[]]) the words of the accumulator, in order, are the
\* whitespace-delimited non-empty substrings of the text and tail segments in
\* document order, and no word contains whitespace.
C1_TokensAreWhitespaceDelimited ==
    Finished =>
        /\ [j \in 1..Len(Flat(data)) |-> Flat(data)[j].word] = DocTokens(doc)
        /\ \A j \in 1..Len(Flat(data)) :
              \A n \in 1..Len(Flat(data)[j].word) : Flat(data)[j].word[n] \notin Whitespace

\* C2 as stated: of the tokens of the direct text of an entity span, exactly the
\* first is tagged B-<type> and every other one I-<type>, newlines in the text
\* or not.
C2_OneBeginPerSegment ==
    Finished =>
        \A k \in EntitySegs :
            \A n \in 1..Len(SegTags(k)) :
                SegTags(k)[n] = <<(IF n = 1 THEN B ELSE I), "-">> \o SegType(k)

\* the tags C2 (amended) expects for text: B for the first token of every line,
\* I for the other tokens of the line (inTok: a token is being read, seen: the
\* line has a token already)
RECURSIVE LineTags(_, _, _, _)
LineTags(s, type, inTok, seen) ==
    IF s = <<>> THEN <<>>
    ELSE IF Head(s) = NL THEN LineTags(Tail(s), type, FALSE, FALSE)
    ELSE IF Head(s) = SP THEN LineTags(Tail(s), type, FALSE, seen)
    ELSE IF inTok THEN LineTags(Tail(s), type, TRUE, TRUE)
    ELSE << <<(IF seen THEN I ELSE B), "-">> \o type >> \o LineTags(Tail(s), type, TRUE, TRUE)

\* C2 (amended): in every line of the direct text of an entity span, the first
\* token of the line is tagged B-<type> and every other token of the line
\* I-<type>, <type> the lowercased TYPE; a text of several lines has one B per
\* line that has a token.
C2_OneBeginPerLine ==
    Finished =>
        \A k \in EntitySegs : SegTags(k) = LineTags(doc[k].text, SegType(k), FALSE, FALSE)

\* C2 witness: an entity span whose text has tokens on two lines has been
\* linearized
C2_Witness ==
    /\ Finished
    /\ \E k \in EntitySegs :
          /\ Len(SegTags(k)) >= 2
          /\ \E n \in 1..Len(doc[k].text) : doc[k].text[n] = NL
          /\ doc[k].text[1] = "a"
          /\ doc[k].text[Len(doc[k].text)] = "a"

\* depth of nesting after event n of doc
Depth(n) ==
    Cardinality({m \in 1..n : doc[m].ev = "open"}) - Cardinality({m \in 1..n : doc[m].ev = "close"})

\* event k of doc lies strictly inside an ENAMEX element
InsideEnamex(k) ==
    \E m \in 1..(k - 1) :
        /\ doc[m].ev = "open"
        /\ doc[m].tag = "ENAMEX"
        /\ \A n \in m..k : Depth(n) >= Depth(m)

\* C3: a pair carries a B- or I- tag only if it comes from the direct text of an
\* ENAMEX element; every pair from a tail, or from the text of another element,
\* is tagged O.
C3_OnlyEntityTextTagged ==
    \A j \in 1..Len(org) :
        \/ doc[org[j]].ev = "open" /\ doc[org[j]].tag = "ENAMEX"
        \/ Flat(data)[j].tag = <<O>>

\* C3 witness: the tail of an element nested inside an ENAMEX element with text
\* has given a token
C3_Witness ==
    /\ Finished
    /\ \E j \in 1..Len(org) :
          /\ doc[org[j]].ev = "close"
          /\ InsideEnamex(org[j])
          /\ \E m \in EntitySegs : m < org[j] /\ SegTags(m) # <<>>

\* "T" for every token and "N" for every newline of the segments of d, in
\* document order; a token is a maximal run without space or newline inside
\* one segment (inTok: a token is being read)
RECURSIVE SegMarks(_, _)
SegMarks(s, inTok) ==
    IF s = <<>> THEN <<>>
    ELSE IF Head(s) = NL THEN <<"N">> \o SegMarks(Tail(s), FALSE)
    ELSE IF Head(s) = SP THEN SegMarks(Tail(s), FALSE)
    ELSE IF inTok THEN SegMarks(Tail(s), TRUE)
    ELSE <<"T">> \o SegMarks(Tail(s), TRUE)
RECURSIVE Marks(_)
Marks(d) == IF d = <<>> THEN <<>> ELSE SegMarks(Head(d).text, FALSE) \o Marks(Tail(d))

\* the number of newlines before the j-th token of the marks m
RECURSIVE NewlinesBefore(_, _)
NewlinesBefore(m, j) ==
    IF Head(m) = "N" THEN 1 + NewlinesBefore(Tail(m), j)
    ELSE IF j = 1 THEN 0 ELSE NewlinesBefore(Tail(m), j - 1)

\* C4: two tokens consecutive in document order lie in the same sentence if and
\* only if no newline occurs between them in the document-order concatenation
\* of the segments; a segment boundary alone never splits a sentence.
C4_SentenceSplitsAtNewlines ==
    Finished =>
        /\ Len(org) = Len(SelectSeq(Marks(doc), LAMBDA x : x = "T"))
        /\ \A j \in 1..(Len(org) - 1) :
              (SentOf(data, j) = SentOf(data, j + 1))
                  <=> (NewlinesBefore(Marks(doc), j) = NewlinesBefore(Marks(doc), j + 1))

\* C4 witness: the last token of one segment and the first token of the next
\* share a sentence
C4_Witness ==
    /\ Finished
    /\ \E j \in 1..(Len(org) - 1) :
          org[j] # org[j + 1] /\ SentOf(data, j) = SentOf(data, j + 1)

\* the number of lines of s that hold a character that is not whitespace
\* (seen: the line being read holds one)
RECURSIVE CountLines(_, _)
CountLines(s, seen) ==
    IF s = <<>> THEN (IF seen THEN 1 ELSE 0)
    ELSE IF Head(s) = NL THEN (IF seen THEN 1 ELSE 0) + CountLines(Tail(s), FALSE)
    ELSE IF Head(s) \in Whitespace THEN CountLines(Tail(s), seen)
    ELSE CountLines(Tail(s), TRUE)

\* the sentences of d that hold a pair, in order
RECURSIVE Kept(_)
Kept(d) ==
    IF d = <<>> THEN <<>>
    ELSE (IF Len(Head(d)) > 0 THEN <<Head(d)>> ELSE <<>>) \o Kept(Tail(d))

Accepted == pc \in {"parsed", "written", "partitioned", "done"}

\* C5: parse_iob_files accepts a document if and only if the number of its
\* non-empty sentences equals the number of non-empty lines of its raw text
\* (lines holding more than whitespace) minus 2; otherwise it raises an error
\* naming the file and both counts; an accepted document's sentences are
\* appended to the corpus exactly as produced.
C5_ValidatorAcceptsIffCountsAgree ==
    LET nsent == Cardinality({k \in 1..Len(data) : data[k] # <<>>})
        nraw == CountLines(Raw(doc), FALSE) - 2
    IN  /\ Accepted => nsent = nraw /\ iob_data = Kept(data)
        /\ err.type = "RuntimeError" =>
              /\ nsent # nraw
              /\ err.filename = filename /\ err.nsent = nsent /\ err.nraw_sent = nraw
              /\ iob_data = <<>>

\* C5 witness: a document with a sentence has been accepted, its empty
\* sentences dropped
C5_Witness ==
    /\ pc = "parsed"
    /\ iob_data # <<>>
    /\ Len(data) > Len(iob_data)

\* C6: whenever the tree holds an ENAMEX element without a TYPE attribute,
\* xml2iob fails, whether the element has text of its own or not.
C6_UntypedEntityFails ==
    Finished =>
        \A k \in 1..Len(doc) :
            (doc[k].ev = "open" /\ doc[k].tag = "ENAMEX") => HasKey(doc[k].attrib, "TYPE")

\* s is t in some order
SameBag(s, t) ==
    /\ Len(s) = Len(t)
    /\ \A x \in {s[k] : k \in 1..Len(s)} \cup {t[k] : k \in 1..Len(t)} :
          Cardinality({k \in 1..Len(s) : s[k] = x}) = Cardinality({k \in 1..Len(t) : t[k] = x})

\* C7: build_random_partitions returns three contiguous ranges of the shuffled
\* corpus that together are the input in some order: validation of
\* int(0.07*n) sentences, test of int(0.07*n) sentences, and train the
\* remainder, returned and written as train; the input is not mutated.
C7_TrainIsRemainder ==
    LET n == Len(iob_data)
        v == (7 * n) \div 100
    IN  /\ pc \in {"partitioned", "done"} =>
              /\ SameBag(shuffled, iob_data)
              /\ parts.valid_data \in {SubSeq(shuffled, a, a + v - 1) : a \in 1..(n + 1)}
              /\ Len(parts.valid_data) = v
              /\ Len(parts.test_data) = v
              /\ Len(parts.train_data) = n - 2 * v
              /\ parts.train_data = SubSeq(shuffled, 2 * v + 1, n)
        /\ pc = "done" => files["trainfile"] = WriteIobText(SubSeq(shuffled, 2 * v + 1, n))
        /\ pc \in {"partitioned", "done"} => files["iobfile"] = WriteIobText(iob_data)

\* the lines of a text in which every line ends with a newline
TextLines(text) ==
    LET pieces == Split(text, NL) IN SubSeq(pieces, 1, Len(pieces) - 1)

\* a line read back: the token up to the first space, the tag after it
ReadPair(line) ==
    [word |-> SubSeq(line, 1, Find(line, SP) - 1),
     tag |-> SubSeq(line, Find(line, SP) + 1, Len(line))]

\* the sentences read back from lines: a blank line ends a sentence (cur: the
\* sentence being read)
RECURSIVE ReadSentences(_, _)
ReadSentences(ls, cur) ==
    IF ls = <<>> THEN (IF cur = <<>> THEN <<>> ELSE <<cur>>)
    ELSE IF Head(ls) = <<>> THEN <<cur>> \o ReadSentences(Tail(ls), <<>>)
    ELSE ReadSentences(Tail(ls), Append(cur, ReadPair(Head(ls))))

\* C8: the text write_iob writes for the sentences of the linearizer has one
\* 'token tag' line per pair, exactly one blank line between consecutive
\* sentences and none after the last, and reading it back (sentences at blank
\* lines, every line split at its first space) gives the original pairs.
C8_WriteIobRoundTrip ==
    pc \in {"written", "partitioned", "done"} =>
        LET text == files["iobfile"]
            ls == TextLines(text)
            blank == {k \in 1..Len(ls) : ls[k] = <<>>}
        IN  /\ text # <<>> => text[Len(text)] = NL
            /\ Len(ls) - Cardinality(blank) = Len(Flat(iob_data))
            /\ Cardinality(blank) = (IF iob_data = <<>> THEN 0 ELSE Len(iob_data) - 1)
            /\ \A k \in blank : k > 1 /\ k < Len(ls) /\ (k + 1) \notin blank
            /\ ReadSentences(ls, <<>>) = iob_data

\* C8 witness: a corpus of two sentences has been written
C8_Witness ==
    /\ pc = "written"
    /\ Len(iob_data) = 2

Last(s) == s[Len(s)]

\* C9 as stated: the accumulator is never empty, and once a token has been
\* emitted its last sentence is never empty.
C9_LastEmptyOnlyBeforeFirstToken ==
    /\ data # <<>>
    /\ org # <<>> => Last(data) # <<>>

\* C9 (amended): the accumulator starts as [[]] and is never empty; every step
\* of the traversal that changes it either appends a pair to its last sentence
\* or pushes a new empty sentence behind it.  So its last sentence is the one
\* being appended to, and is empty only before the first token of the document
\* or between a sentence split and the next token.
C9_AppendToLastOrSplit ==
    /\ data = << <<>> >>
    /\ [][/\ data' # <<>>
          /\ \/ data' = data
             \/ data' = Append(data, <<>>)
             \/ /\ Len(data') = Len(data)
                /\ SubSeq(data', 1, Len(data) - 1) = SubSeq(data, 1, Len(data) - 1)
                /\ Len(Last(data')) = Len(Last(data)) + 1
                /\ SubSeq(Last(data'), 1, Len(Last(data))) = Last(data)]_vars

\* C9 witness: tokens have been appended to two sentences, and after another
\* sentence split the last sentence is empty
C9_Witness ==
    /\ Len(data) >= 3
    /\ data[1] # <<>>
    /\ data[2] # <<>>
    /\ Last(data) = <<>>

\* C10: every pair tagged I-<type> is preceded, in its sentence, by a pair
\* tagged B-<type> or I-<type> of the same type; no sentence begins with an I-
\* tag, and none follows an O tag or a tag of another type.
C10_WellFormedIob ==
    \A k \in 1..Len(data) :
        \A n \in 1..Len(data[k]) :
            data[k][n].tag[1] = I =>
                /\ n > 1
                /\ data[k][n - 1].tag[1] \in {B, I}
                /\ Tail(data[k][n - 1].tag) = Tail(data[k][n].tag)

\* C10 witness: a span of two tokens on one line of an entity text that holds a
\* newline as well
C10_Witness ==
    /\ Finished
    /\ \E k \in EntitySegs :
          /\ \E n \in 1..Len(SegTags(k)) : SegTags(k)[n][1] = I
          /\ \E n \in 1..Len(doc[k].text) : doc[k].text[n] = NL

====
